---- MODULE Spec2Model ----
(***************************************************************************)
(* Model of the prompt evaluation pipeline (src/src/evaluate.py) and of    *)
(* the prompt push / pull scripts (src/src/push_prompts.py,                *)
(* src/src/pull_prompts.py).                                               *)
(*                                                                         *)
(* Spec is a run of main of evaluate.py on a command line the argument     *)
(* parser accepts, SpecMain a run on any command line, SpecDataset         *)
(* successive runs against one dataset store.  SpecLoader, SpecRunner and  *)
(* SpecDisplay run one function of it over all its inputs, SpecPush is a   *)
(* run of main of push_prompts.py, SpecRoundTrip a push followed by a      *)
(* pull.                                                                   *)
(*                                                                         *)
(* Scores are numbers in units of 1/10000: 9000 is 0.9 and 10000 is 1.0.   *)
(* A score k stands for the double nearest to k/10000; the mean and its    *)
(* rounding are computed on doubles, as sum(), / and round() do.           *)
(* Texts are pairs <<tag, n>>; the empty string is <<"", 0>>.              *)
(***************************************************************************)
EXTENDS Integers, Sequences, FiniteSets, TLC

VARIABLES
    argv,           \* what the argument parser makes of the command line
    env,            \* process environment: variable name -> value or Unset
    max_examples,   \* args.max_examples
    file,           \* datasets/bug_to_user_story.jsonl
    store,          \* the dataset store's dataset of name dataset_name
    storeCalls,     \* dataset-store calls made so far, in order
    storeError,     \* create_evaluation_dataset: which of its dataset-store
                    \* calls raised in the last run of it, 0 when none did
    pullCalls,      \* outcomes of the hub.pull calls made so far
    loaded,         \* value returned by load_dataset_from_jsonl
    pc,             \* position in main / evaluate_prompt
    examples,       \* evaluate_prompt: examples[:max_examples]
    idx,            \* evaluate_prompt: examples of the slice already handled
    result,         \* evaluate_prompt: result of evaluate_prompt_on_example
    runLog,         \* the examples handed to the Example Runner, in order:
                    \* the id of each, what the model call did, and whether
                    \* the aggregator found its answer non-empty
    evalCalls,      \* number of metric evaluator calls made
    evalLog,        \* the scores the four evaluators returned, per scored example
    tone_scores,
    acceptance_criteria_scores,
    format_scores,
    completeness_scores,
    aborted,        \* evaluate_prompt left through its except branch
    scores,         \* value returned by evaluate_prompt
    passed,         \* value returned by display_results
    exitCode,       \* value returned by main
    prompt_data,    \* push: the YAML structure
    hubRepo,        \* the Hub: the stored prompt template
    pushed,         \* value returned by push_prompt_to_langsmith
    pulled,         \* pull: prompt_dict["messages"]
    pullOk,         \* value returned by pull_prompts_from_langsmith
    raised,         \* loader: the exception that left load_dataset_from_jsonl
    skip_tests,     \* push: args.skip_tests
    prompt_file,    \* push: what load_yaml returns for args.prompt_file
    returncode,     \* push: result.returncode of the pytest run, -1 before it
    is_valid,       \* push: first value returned by validate_prompt
    errors,         \* push: second value returned by validate_prompt
    pushCalls       \* the calls of hub.push so far, in order

vars == <<argv, env, max_examples, file, store, storeCalls, storeError, pullCalls,
          loaded, pc,
          examples, idx, result, runLog, evalCalls, evalLog, tone_scores,
          acceptance_criteria_scores, format_scores, completeness_scores,
          aborted, scores, passed, exitCode, prompt_data, hubRepo, pushed,
          pulled, pullOk, raised, skip_tests, prompt_file, returncode,
          is_valid, errors, pushCalls>>

(***************************************************************************)
(* Bounds                                                                  *)
(***************************************************************************)
\* Largest number of examples in the dataset file and in the dataset store.
MaxExamples == 3

\* Largest number of lines of a dataset file (loader specification).
MaxLines == 3

\* Largest number of messages of a prompt (push / pull specification).
MaxMsgs == 2

\* Largest number of runs that reach evaluate_prompt (dataset specification).
MaxRuns == 3

(***************************************************************************)
(* Texts and examples                                                      *)
(***************************************************************************)
Str(tag, n) == <<tag, n>>

EmptyStr == Str("", 0)

NA == Str("N/A", 0)

None == [none |-> TRUE]

\* The record json.loads returns for the line describing example k, and the
\* Example the dataset store returns for it.  The key sets rotate so that
\* every branch of the question / reference extraction is exercised.
ExampleInputs(k) ==
    CASE k % 4 = 1 -> [bug_report |-> Str("bug_report", k)]
      [] k % 4 = 2 -> [question |-> Str("question", k),
                       bug_report |-> Str("bug_report", k)]
      [] k % 4 = 3 -> [pr_title |-> Str("pr_title", k)]
      [] OTHER     -> [title |-> Str("title", k)]

ExampleOutputs(k) ==
    IF k % 4 = 3 THEN [notes |-> Str("notes", k)]
                 ELSE [reference |-> Str("reference", k)]

Example(k) == [id |-> k, inputs |-> ExampleInputs(k), outputs |-> ExampleOutputs(k)]

ExampleIds(exs) == [i \in 1..Len(exs) |-> exs[i].id]

Prefix(s, n) == SubSeq(s, 1, n)

Min(a, b) == IF a <= b THEN a ELSE b

Max(a, b) == IF a >= b THEN a ELSE b

(***************************************************************************)
(* Dataset Loader: load_dataset_from_jsonl                                 *)
(*                                                                         *)
(* A line of the file is a sequence of tokens: white space, the JSON text  *)
(* of example k, or text that is not JSON.  A file is missing, or holds    *)
(* lines; errAt = i > 0 makes the read of line i fail with an OSError.     *)
(***************************************************************************)
WS == [t |-> "ws", ex |-> 0]

Bad == [t |-> "bad", ex |-> 0]

J(k) == [t |-> "json", ex |-> k]

MissingFile == [exists |-> FALSE, lines |-> <<>>, errAt |-> 0]

\* str.lstrip / str.rstrip / str.strip on a line
RECURSIVE LStrip(_)
LStrip(line) ==
    IF line # <<>> /\ Head(line) = WS THEN LStrip(Tail(line)) ELSE line

RECURSIVE RStrip(_)
RStrip(line) ==
    IF line # <<>> /\ line[Len(line)] = WS
    THEN RStrip(SubSeq(line, 1, Len(line) - 1))
    ELSE line

Strip(line) == RStrip(LStrip(line))

\* json.loads on a stripped line: the parsed record, or JSONDecodeError
JsonLoads(line) ==
    IF Len(line) = 1 /\ line[1].t = "json"
    THEN [exc |-> "none", value |-> Example(line[1].ex)]
    ELSE [exc |-> "JSONDecodeError", value |-> None]

\* The for loop of the try body, from line i on, with the examples so far.
RECURSIVE ReadLines(_, _, _)
ReadLines(f, i, acc) ==
    IF f.errAt = i THEN [exc |-> "OSError", value |-> acc]
    ELSE IF i > Len(f.lines) THEN [exc |-> "none", value |-> acc]
    ELSE LET line == Strip(f.lines[i]) IN
         IF line = <<>> THEN ReadLines(f, i + 1, acc)
         ELSE LET parsed == JsonLoads(line) IN
              IF parsed.exc # "none"
              THEN [exc |-> parsed.exc, value |-> acc]
              ELSE ReadLines(f, i + 1, Append(acc, parsed.value))

\* The try body: open() and the loop.
LoadTryBody(f) ==
    IF ~f.exists THEN [exc |-> "FileNotFoundError", value |-> <<>>]
    ELSE ReadLines(f, 1, <<>>)

\* load_dataset_from_jsonl returning, on a malformed line, the examples read
\* before it.
LoadDatasetFromJsonlPartial(f) ==
    LET r == LoadTryBody(f) IN
    CASE r.exc = "FileNotFoundError" -> [raised |-> "none", value |-> <<>>]
      [] r.exc = "JSONDecodeError"   -> [raised |-> "none", value |-> r.value]
      [] r.exc = "none"              -> [raised |-> "none", value |-> r.value]
      [] OTHER                       -> [raised |-> "none", value |-> <<>>]

\* load_dataset_from_jsonl: raised is the exception that leaves the function
\* ("none" when it returns), value the list it returns.
LoadDatasetFromJsonl(f) ==
    LET r == LoadTryBody(f) IN
    CASE r.exc = "none"              -> [raised |-> "none", value |-> r.value]
      [] r.exc = "FileNotFoundError" -> [raised |-> "none", value |-> <<>>]
      [] r.exc = "JSONDecodeError"   -> [raised |-> "none", value |-> <<>>]
      [] OTHER                       -> [raised |-> "none", value |-> <<>>]

(***************************************************************************)
(* Dataset store and create_evaluation_dataset                             *)
(***************************************************************************)
\* create_evaluation_dataset without its "if not examples" return.
DatasetCallsNoEarlyReturn(st, local) ==
    IF st.exists THEN <<"list_datasets">>
    ELSE <<"list_datasets", "create_dataset">>
         \o [i \in 1..Len(local) |-> "create_example"]

\* The calls create_evaluation_dataset makes when none of them fails.
DatasetCalls(st, local) ==
    IF local = <<>> THEN <<>>
    ELSE IF st.exists THEN <<"list_datasets">>
    ELSE <<"list_datasets", "create_dataset">>
         \o [i \in 1..Len(local) |-> "create_example"]

\* create_evaluation_dataset when its failAt-th dataset-store call raises
\* (0: none does): the calls made, the last one included, and the store
\* they leave.  A call that raises changes nothing.
CreateEvaluationDataset(st, local, failAt) ==
    LET all  == DatasetCalls(st, local)
        made == IF failAt = 0 THEN all ELSE Prefix(all, Min(failAt, Len(all)))
        ok   == IF failAt = 0 \/ failAt > Len(all) THEN Len(all) ELSE failAt - 1
    IN  [calls |-> made,
         store |-> IF st.exists \/ ok < 2 THEN st
                   ELSE [exists |-> TRUE, examples |-> Prefix(local, ok - 2)]]

(***************************************************************************)
(* Environment and configuration check (main)                              *)
(***************************************************************************)
Unset == "<unset>"

\* os.getenv(name, default)
Getenv(e, name, default) == IF e[name] = Unset THEN default ELSE e[name]

\* main asking only for the two variables every provider needs.
RequiredVarsNoProviderKey(e) == <<"LANGSMITH_API_KEY", "LLM_PROVIDER">>

\* main: the variables check_env_vars is asked about
RequiredVars(e) ==
    LET provider == Getenv(e, "LLM_PROVIDER", "openai") IN
    <<"LANGSMITH_API_KEY", "LLM_PROVIDER">>
    \o (IF provider = "openai" THEN <<"OPENAI_API_KEY">>
        ELSE IF provider \in {"google", "gemini"} THEN <<"GOOGLE_API_KEY">>
        ELSE <<>>)

\* utils.check_env_vars: true iff every required variable is set
CheckEnvVars(e, required) ==
    \A i \in 1..Len(required) : e[required[i]] # Unset

(***************************************************************************)
(* Example Runner: evaluate_prompt_on_example                              *)
(***************************************************************************)
\* dict.get(key, default)
Get(d, key, default) == IF key \in DOMAIN d THEN d[key] ELSE default

\* isinstance(x, dict)
IsDict(x) == x # None

\* What rendering the template and invoking the model can do for one example.
RunnerOutcomes == {"render_error", "model_error", "empty_content", "content"}

\* evaluate_prompt_on_example without its except branch: a failure of the
\* rendering or of the model call leaves the function.
EvaluatePromptOnExampleNoCatch(example, outcome) ==
    IF outcome \in {"render_error", "model_error"}
    THEN [exc |-> outcome, value |-> None]
    ELSE [exc |-> "none",
          value |-> [answer    |-> IF outcome = "content"
                                   THEN Str("answer", example.id) ELSE EmptyStr,
                     reference |-> Get(example.outputs, "reference", EmptyStr),
                     question  |-> Get(example.inputs, "question",
                                       Get(example.inputs, "bug_report",
                                           Get(example.inputs, "pr_title", NA)))]]

\* evaluate_prompt_on_example probing bug_report before question and reading
\* the reference without the isinstance test.
EvaluatePromptOnExampleBugReportFirst(example, outcome) ==
    IF outcome \in {"render_error", "model_error"}
    THEN [exc |-> "none",
          value |-> [answer |-> EmptyStr, reference |-> EmptyStr,
                     question |-> EmptyStr]]
    ELSE [exc |-> "none",
          value |-> [answer    |-> IF outcome = "content"
                                   THEN Str("answer", example.id) ELSE EmptyStr,
                     reference |-> Get(example.outputs, "reference", EmptyStr),
                     question  |-> Get(example.inputs, "bug_report",
                                       Get(example.inputs, "question",
                                           Get(example.inputs, "pr_title", NA)))]]

\* evaluate_prompt_on_example for an example, given what chain.invoke does:
\* exc is the exception that leaves the function ("none" when it returns),
\* value the dict it returns.
EvaluatePromptOnExample(example, outcome) ==
    IF outcome \in {"render_error", "model_error"}
    THEN [exc |-> "none",
          value |-> [answer |-> EmptyStr, reference |-> EmptyStr,
                     question |-> EmptyStr]]
    ELSE LET inputs  == example.inputs
             outputs == example.outputs
         IN  [exc |-> "none",
              value |->
                [answer    |-> IF outcome = "content"
                               THEN Str("answer", example.id) ELSE EmptyStr,
                 reference |-> IF IsDict(outputs)
                               THEN Get(outputs, "reference", EmptyStr)
                               ELSE EmptyStr,
                 question  |-> IF IsDict(inputs)
                               THEN Get(inputs, "question",
                                        Get(inputs, "bug_report",
                                            Get(inputs, "pr_title", NA)))
                               ELSE NA]]

(***************************************************************************)
(* Aggregation: the end of evaluate_prompt, and display_results            *)
(***************************************************************************)
Metrics == {"tone", "acceptance_criteria", "format", "completeness"}

\* The scores (tone, acceptance, format, completeness) the four evaluators
\* may return for one answer.
ScoreTuples == { <<10000, 10000, 10000, 10000>>,
                 <<9001, 10000, 8000, 10000>>,
                 <<8000, 9000, 10000, 5000>> }

RECURSIVE Sum(_)
Sum(list) == IF list = <<>> THEN 0 ELSE Head(list) + Sum(Tail(list))

(***************************************************************************)
(* Doubles.  A natural number is the sequence of its bits, lowest first;   *)
(* a double is [m, e] of value m * 2^e with m of at most 53 bits (54 when  *)
(* a rounding carried into a new bit, the value being the same).           *)
(***************************************************************************)
\* Bits of the significand of a double.
Precision == 53

RECURSIVE Bits(_)
Bits(n) == IF n = 0 THEN <<>> ELSE <<n % 2>> \o Bits(n \div 2)

RECURSIVE ToInt(_)
ToInt(b) == IF b = <<>> THEN 0 ELSE Head(b) + 2 * ToInt(Tail(b))

RECURSIVE Trim(_)
Trim(b) ==
    IF b = <<>> THEN <<>>
    ELSE IF b[Len(b)] = 0 THEN Trim(SubSeq(b, 1, Len(b) - 1))
    ELSE b

Zeros(n) == [i \in 1..n |-> 0]

\* Bit i of a, 0 above its length
Bit(a, i) == IF i <= Len(a) THEN a[i] ELSE 0

\* Bits lo..hi of a + b + c, and the carry out of bit hi.  The range is
\* halved so that the recursion stays shallow.
RECURSIVE AddRange(_, _, _, _, _)
AddRange(a, b, lo, hi, c) ==
    IF lo = hi
    THEN LET v == Bit(a, lo) + Bit(b, lo) + c
         IN  [s |-> <<v % 2>>, c |-> v \div 2]
    ELSE LET mid  == (lo + hi) \div 2
             low  == AddRange(a, b, lo, mid, c)
             high == AddRange(a, b, mid + 1, hi, low.c)
         IN  [s |-> low.s \o high.s, c |-> high.c]

\* a + b
AddBits(a, b) ==
    IF a = <<>> THEN b
    ELSE IF b = <<>> THEN a
    ELSE LET r == AddRange(a, b, 1, Max(Len(a), Len(b)), 0)
         IN  r.s \o Bits(r.c)

\* Bits lo..hi of a * k + c for a small k, and the carry out of bit hi
RECURSIVE MulRange(_, _, _, _, _)
MulRange(a, k, lo, hi, c) ==
    IF lo = hi
    THEN LET v == a[lo] * k + c
         IN  [s |-> <<v % 2>>, c |-> v \div 2]
    ELSE LET mid  == (lo + hi) \div 2
             low  == MulRange(a, k, lo, mid, c)
             high == MulRange(a, k, mid + 1, hi, low.c)
         IN  [s |-> low.s \o high.s, c |-> high.c]

\* a * k for a small k
MulSmall(a, k) ==
    IF a = <<>> THEN <<>>
    ELSE LET r == MulRange(a, k, 1, Len(a), 0) IN r.s \o Bits(r.c)

\* The division by a small d of bits lo..hi of a, r being the remainder of
\* the bits above hi: the bits lo..hi of the quotient, and the remainder.
\* The remainder of the high half is always below d; testing it makes the
\* high half be computed before the low half, which needs its remainder.
RECURSIVE DivRange(_, _, _, _, _)
DivRange(a, lo, hi, r, d) ==
    IF lo = hi
    THEN LET v == 2 * r + a[lo]
         IN  [q |-> <<v \div d>>, r |-> v % d]
    ELSE LET mid  == (lo + hi) \div 2
             high == DivRange(a, mid + 1, hi, r, d)
             low  == DivRange(a, lo, mid, high.r, d)
         IN  IF high.r < d THEN [q |-> low.q \o high.q, r |-> low.r]
             ELSE [q |-> <<>>, r |-> 0]

\* quotient and remainder of a by a small d
DivSmall(a, d) ==
    IF a = <<>> THEN [q |-> <<>>, r |-> 0]
    ELSE DivRange(a, 1, Len(a), 0, d)

\* (q + a fraction, non-zero iff sticky) * 2^e rounded to the nearest
\* double, a tie going to the even significand
RoundToDouble(q, sticky, e) ==
    IF Len(q) <= Precision THEN [m |-> q, e |-> e]
    ELSE LET drop == Len(q) - Precision
             m    == SubSeq(q, drop + 1, Len(q))
             half == q[drop] = 1
             rest == sticky \/ \E i \in 1..(drop - 1) : q[i] = 1
             up   == half /\ (rest \/ m[1] = 1)
         IN  [m |-> IF up THEN Trim(AddBits(m, <<1>>)) ELSE m,
              e |-> e + drop]

ZeroDouble == [m |-> <<>>, e |-> 0]

\* The number of bits n is shifted by before it is divided by d, enough for
\* the quotient to have two bits more than a significand
Scale(n, d) == Max(0, Precision + 2 + Len(Bits(d)) - Len(n))

\* The double nearest to (n / d) * 2^e
Double(n, d, e) ==
    IF Trim(n) = <<>> THEN ZeroDouble
    ELSE LET k  == Scale(Trim(n), d)
             qr == DivSmall(Zeros(k) \o Trim(n), d)
         IN  RoundToDouble(Trim(qr.q), qr.r # 0, e - k)

\* The scores the evaluators may return.
ScoreValues == {t[i] : t \in ScoreTuples, i \in 1..4}

\* The doubles of these scores, computed once: @@ <<>> leaves the function
\* as it is and has it held as a table.
ScoreDoubles == [k \in ScoreValues |-> Double(Bits(k), 10000, 0)] @@ <<>>

\* The double of the score k, 0.0001 * k as the evaluators return it
ScoreDouble(k) ==
    IF k \in ScoreValues THEN ScoreDoubles[k] ELSE Double(Bits(k), 10000, 0)

\* x + y on doubles
DoubleAdd(x, y) ==
    IF x.m = <<>> THEN y
    ELSE IF y.m = <<>> THEN x
    ELSE LET e == Min(x.e, y.e)
         IN  RoundToDouble(Trim(AddBits(Zeros(x.e - e) \o x.m,
                                        Zeros(y.e - e) \o y.m)), FALSE, e)

\* sum(xs): the scores added one by one, from the left, to 0
RECURSIVE DoubleSum(_, _)
DoubleSum(list, acc) ==
    IF list = <<>> THEN acc
    ELSE DoubleSum(Tail(list), DoubleAdd(acc, ScoreDouble(Head(list))))

\* sum(xs) / len(xs) on doubles
DoubleAvg(list) ==
    LET s == DoubleSum(list, ZeroDouble) IN Double(s.m, Len(list), s.e)

\* round(x, 4) of a double x < 2^52, in units of 1/10000: the multiple
\* nearest to the value of the double, a tie going to the even one
RoundDouble4(x) ==
    IF x.m = <<>> THEN 0
    ELSE LET k    == 0 - x.e
             p    == MulSmall(x.m, 10000)
             s    == p \o Zeros(Max(0, k + 1 - Len(p)))
             q    == ToInt(Trim(SubSeq(s, k + 1, Len(s))))
             half == s[k] = 1
             rest == \E i \in 1..(k - 1) : s[i] = 1
         IN  IF half /\ (rest \/ q % 2 = 1) THEN q + 1 ELSE q

\* The lists of scores of up to MaxExamples answers, and round(x, 4) of
\* their means on doubles, computed once.
ScoreLists == UNION {[1..n -> ScoreValues] : n \in 1..MaxExamples}

RoundedMeans == [list \in ScoreLists |-> RoundDouble4(DoubleAvg(list))] @@ <<>>

\* sum(xs) / len(xs) if xs else 0.0: the scores, with their exact total and
\* their number
Avg(list) ==
    IF list # <<>> THEN [num |-> Sum(list), den |-> Len(list), terms |-> list]
    ELSE [num |-> 0, den |-> 1, terms |-> <<>>]

\* Round4 truncating instead of rounding to nearest.
Round4Truncating(x) == x.num \div x.den

\* round(x, 4) of the mean x.  When the exact mean is not half-way between
\* two multiples of 1/10000 it is at least 1/(20000 * den) away from the
\* half-way point, the double less than 2^-50 away from the exact mean, and
\* the nearest multiple is that of the exact mean; when it is half-way, the
\* double decides.
Round4(x) ==
    LET q == x.num \div x.den
        r == x.num % x.den
    IN  IF 2 * r < x.den THEN q
        ELSE IF 2 * r > x.den THEN q + 1
        ELSE IF x.terms \in ScoreLists THEN RoundedMeans[x.terms]
        ELSE RoundDouble4(DoubleAvg(x.terms))

\* The dict evaluate_prompt returns from its try body.
AggregateScores(tone, acceptance, format, completeness) ==
    [tone                |-> Round4(Avg(tone)),
     acceptance_criteria |-> Round4(Avg(acceptance)),
     format              |-> Round4(Avg(format)),
     completeness        |-> Round4(Avg(completeness))]

\* The dict evaluate_prompt returns from its except branch.
ZeroScores ==
    [tone |-> 0, acceptance_criteria |-> 0, format |-> 0, completeness |-> 0]

\* 0.9
Threshold == 9000

\* display_results comparing with > instead of >=.
DisplayResultsStrict(sc) == \A m \in DOMAIN sc : sc[m] > Threshold

\* display_results: all(score >= 0.9 for score in scores.values())
DisplayResultsValue(sc) == \A m \in DOMAIN sc : sc[m] >= Threshold

\* examples[:max_examples]
Slice(exs, m) ==
    IF m >= 0 THEN Prefix(exs, Min(m, Len(exs)))
    ELSE Prefix(exs, Max(Len(exs) + m, 0))

(***************************************************************************)
(* Prompt registry scripts: push_prompt_to_langsmith and                   *)
(* pull_prompts_from_langsmith                                             *)
(*                                                                         *)
(* A class name is a sequence of word tokens, so that the str.replace      *)
(* calls of the pull act on it as they do on the name.                     *)
(***************************************************************************)
\* A content that is not a valid template (an unbalanced brace).
BadTemplate == Str("{", 0)

\* A content of white space only.
Blank == Str(" ", 0)

\* str.strip on a content
StripText(c) == IF c = Blank THEN EmptyStr ELSE c

\* ChatPromptTemplate.from_messages: the class of the message template built
\* for a (role, content) pair; <<>> when the role is not a message type.
MessageClass(role) ==
    CASE role = "system"               -> <<"System", "Message", "PromptTemplate">>
      [] role \in {"human", "user"}    -> <<"Human", "Message", "PromptTemplate">>
      [] role \in {"ai", "assistant"}  -> <<"AI", "Message", "PromptTemplate">>
      [] OTHER                         -> <<>>

\* ChatPromptTemplate.from_messages(messages)
RECURSIVE FromMessages(_)
FromMessages(messages) ==
    IF messages = <<>> THEN [exc |-> "none", value |-> <<>>]
    ELSE LET role    == Head(messages)[1]
             content == Head(messages)[2]
             rest    == FromMessages(Tail(messages))
         IN  IF MessageClass(role) = <<>> \/ content = BadTemplate
             THEN [exc |-> "ValueError", value |-> <<>>]
             ELSE IF rest.exc # "none" THEN rest
             ELSE [exc |-> "none",
                   value |-> <<[class |-> MessageClass(role),
                                prompt |-> [template |-> content]]>>
                             \o rest.value]

\* push_prompt_to_langsmith: the list of (role, content) pairs
PushMessages(data) ==
    LET msgs == Get(data, "messages", <<>>) IN
    [i \in 1..Len(msgs) |->
        <<Get(msgs[i], "role", "system"), Get(msgs[i], "content", EmptyStr)>>]

\* What hub.push can do.
PushOutcomes == {"ok", "authentication", "network"}

\* hasattr(obj, name), an object being the record of its attributes
HasAttr(obj, name) == name \in DOMAIN obj

\* The Hub holds no prompt under the name.
NoPrompt == [absent |-> TRUE]

\* A ChatPromptTemplate of the given message templates.
ChatPrompt(msgs) == [messages |-> msgs]

\* A YAML list and a YAML string as values of a metadata key: isinstance
\* tells them apart.
List(items) == [list |-> items]

IsList(v) == "list" \in DOMAIN v

Text(t) == [str |-> t]

IsText(v) == "str" \in DOMAIN v

\* The default of prompt_data.get("description", ...)
DefaultDescription == Text("Prompt otimizado para Bug to User Story")

\* The tag push_prompt_to_langsmith adds.
ExtraTag == "bug-to-user-story"

\* item in tags for a list of strings
InList(item, items) == \E i \in 1..Len(items) : items[i] = item

\* push_prompt_to_langsmith, lines 59 to 68: the description and the tags,
\* the exception raised on the way (tags that are null have no "in"), and
\* the YAML structure afterwards: tags.append acts on the list held by
\* prompt_data when the key is there and holds a list.
PushMetadata(data) ==
    LET description == Get(data, "description", DefaultDescription)
        found == "techniques_applied" \in DOMAIN data
        tags0 == Get(data, "techniques_applied", List(<<>>))
        tags1 == IF IsText(tags0) THEN List(<<tags0.str>>) ELSE tags0
    IN  IF ~IsList(tags1)
        THEN [exc |-> "TypeError", description |-> description,
              tags |-> <<>>, data |-> data]
        ELSE IF InList(ExtraTag, tags1.list)
        THEN [exc |-> "none", description |-> description,
              tags |-> tags1.list, data |-> data]
        ELSE LET tags2 == Append(tags1.list, ExtraTag) IN
             [exc |-> "none", description |-> description, tags |-> tags2,
              data |-> IF found /\ IsList(tags0)
                       THEN [data EXCEPT !["techniques_applied"] = List(tags2)]
                       ELSE data]

\* push_prompt_to_langsmith: the value returned, the Hub's prompt after it,
\* the calls of hub.push (none or one) and the YAML structure after it
PushPromptToLangsmith(data, repo, outcome) ==
    LET messages == PushMessages(data)
        built    == FromMessages(messages)
        meta     == PushMetadata(data)
        call     == [object |-> ChatPrompt(built.value),
                     new_repo_description |-> meta.description,
                     new_repo_labels |-> meta.tags]
    IN  IF messages = <<>>
        THEN [ok |-> FALSE, repo |-> repo, sent |-> <<>>, data |-> data]
        ELSE IF built.exc # "none"
        THEN [ok |-> FALSE, repo |-> repo, sent |-> <<>>, data |-> data]
        ELSE IF meta.exc # "none"
        THEN [ok |-> FALSE, repo |-> repo, sent |-> <<>>, data |-> meta.data]
        ELSE IF ~IsText(meta.description)
        THEN [ok |-> FALSE, repo |-> repo, sent |-> <<>>, data |-> meta.data]
        ELSE IF outcome # "ok"
        THEN [ok |-> FALSE, repo |-> repo, sent |-> <<call>>,
              data |-> meta.data]
        ELSE [ok |-> TRUE, repo |-> call.object, sent |-> <<call>>,
              data |-> meta.data]

\* validate_prompt without its loop over the contents.
ValidatePromptNoContentCheck(data) ==
    LET messages == Get(data, "messages", <<>>)
        e1 == IF messages = <<>> THEN <<"no_messages">> ELSE <<>>
        e2 == IF \E i \in 1..Len(messages) :
                    "role" \in DOMAIN messages[i] /\ messages[i]["role"] = "system"
              THEN <<>> ELSE <<"no_system">>
    IN  [is_valid |-> e1 \o e2 = <<>>, errors |-> e1 \o e2]

\* validate_prompt: the errors of the loop over the contents, from message i on
RECURSIVE EmptyContentErrors(_, _)
EmptyContentErrors(messages, i) ==
    IF i > Len(messages) THEN <<>>
    ELSE (IF StripText(Get(messages[i], "content", EmptyStr)) = EmptyStr
          THEN <<"empty">> ELSE <<>>)
         \o EmptyContentErrors(messages, i + 1)

\* validate_prompt: (len(errors) == 0, errors), an error being its kind
ValidatePrompt(data) ==
    LET messages == Get(data, "messages", <<>>)
        e1 == IF messages = <<>> THEN <<"no_messages">> ELSE <<>>
        e2 == IF \E i \in 1..Len(messages) :
                    "role" \in DOMAIN messages[i] /\ messages[i]["role"] = "system"
              THEN <<>> ELSE <<"no_system">>
        e3 == EmptyContentErrors(messages, 1)
    IN  [is_valid |-> e1 \o e2 \o e3 = <<>>, errors |-> e1 \o e2 \o e3]

\* str.replace("MessagePromptTemplate", "") on a class name
RECURSIVE DropMessagePromptTemplate(_)
DropMessagePromptTemplate(name) ==
    IF name = <<>> THEN <<>>
    ELSE IF Len(name) >= 2 /\ name[1] = "Message" /\ name[2] = "PromptTemplate"
    THEN DropMessagePromptTemplate(Tail(Tail(name)))
    ELSE <<Head(name)>> \o DropMessagePromptTemplate(Tail(name))

\* str.replace("Message", "") on a class name
RECURSIVE DropMessage(_)
DropMessage(name) ==
    IF name = <<>> THEN <<>>
    ELSE IF Head(name) = "Message" THEN DropMessage(Tail(name))
    ELSE <<Head(name)>> \o DropMessage(Tail(name))

\* str.lower on a word of a class name
LowerWord(w) ==
    CASE w = "System"         -> "system"
      [] w = "Human"          -> "human"
      [] w = "AI"             -> "ai"
      [] w = "Chat"           -> "chat"
      [] w = "Tool"           -> "tool"
      [] w = "Function"       -> "function"
      [] w = "Message"        -> "message"
      [] w = "PromptTemplate" -> "prompttemplate"
      [] w = "Placeholder"    -> "placeholder"
      [] w = "Chunk"          -> "chunk"
      [] OTHER                -> w

\* str.lower on a name, as one string
RECURSIVE Lower(_)
Lower(name) ==
    IF name = <<>> THEN "" ELSE LowerWord(Head(name)) \o Lower(Tail(name))

\* The role computed with the replace of "Message" alone.
PulledRoleOneReplace(msg) == Lower(DropMessage(msg.class))

\* pull: the role written for a message of the pulled prompt
PulledRole(msg) == Lower(DropMessage(DropMessagePromptTemplate(msg.class)))

\* str(msg), the text written when msg.prompt has no template
StrOf(msg) == Str("str(msg)", Len(msg.class))

\* pull: the content written for a message of the pulled prompt
PulledContent(msg) ==
    IF HasAttr(msg.prompt, "template") THEN msg.prompt.template ELSE StrOf(msg)

\* pull: the loop over prompt.messages; a message without the attribute
\* prompt raises AttributeError
RECURSIVE PulledMessages(_)
PulledMessages(msgs) ==
    IF msgs = <<>> THEN [exc |-> "none", value |-> <<>>]
    ELSE IF ~HasAttr(Head(msgs), "prompt")
    THEN [exc |-> "AttributeError", value |-> <<>>]
    ELSE LET rest == PulledMessages(Tail(msgs)) IN
         IF rest.exc # "none" THEN rest
         ELSE [exc |-> "none",
               value |-> <<[role |-> PulledRole(Head(msgs)),
                            content |-> PulledContent(Head(msgs))]>>
                         \o rest.value]

\* hub.pull of a name under which the Hub holds nothing does not succeed.
HubPull(repo, pullOutcome) ==
    IF pullOutcome = "ok" /\ repo = NoPrompt THEN "not_found" ELSE pullOutcome

\* pull_prompts_from_langsmith: the value returned, the messages handed to
\* save_yaml and the outcomes of the calls of hub.pull (none or one)
PullPromptsFromLangsmith(e, repo, pullOutcome, saved) ==
    LET o == HubPull(repo, pullOutcome) IN
    IF ~CheckEnvVars(e, <<"LANGSMITH_API_KEY">>)
    THEN [ok |-> FALSE, messages |-> <<>>, calls |-> <<>>]
    ELSE IF o # "ok"
    THEN [ok |-> FALSE, messages |-> <<>>, calls |-> <<o>>]
    ELSE IF ~HasAttr(repo, "messages")
    THEN [ok |-> saved, messages |-> <<>>, calls |-> <<o>>]
    ELSE LET msgs == PulledMessages(repo.messages) IN
         IF msgs.exc # "none"
         THEN [ok |-> FALSE, messages |-> <<>>, calls |-> <<o>>]
         ELSE [ok |-> saved, messages |-> msgs.value, calls |-> <<o>>]

(***************************************************************************)
(* Initial states                                                          *)
(***************************************************************************)
EnvVars == {"LANGSMITH_API_KEY", "LLM_PROVIDER", "OPENAI_API_KEY", "GOOGLE_API_KEY"}

Providers == {"openai", "google", "gemini", "anthropic"}

Envs ==
    { e \in [EnvVars -> {Unset, "key"} \cup Providers] :
        /\ e["LLM_PROVIDER"] \in Providers \cup {Unset}
        /\ \A v \in EnvVars \ {"LLM_PROVIDER"} : e[v] \in {Unset, "key"} }

FullEnv == [v \in EnvVars |-> IF v = "LLM_PROVIDER" THEN "openai" ELSE "key"]

\* A file of the well-formed lines of examples 1..n.
GoodFile(n) ==
    [exists |-> TRUE, lines |-> [i \in 1..n |-> <<J(i)>>], errAt |-> 0]

\* The dataset files of the evaluation runs: missing, well formed (one with
\* a blank line), with a malformed line, unreadable.
MainFiles ==
    {MissingFile}
    \cup { GoodFile(n) : n \in 0..MaxExamples }
    \cup { [GoodFile(MaxExamples) EXCEPT !.lines = <<<<WS>>>> \o @] }
    \cup { [GoodFile(1) EXCEPT !.lines = @ \o <<<<Bad>>>>] }
    \cup { [GoodFile(1) EXCEPT !.errAt = 2] }

NoDataset == [exists |-> FALSE, examples |-> <<>>]

\* The dataset of name dataset_name before the run: absent, or left by an
\* earlier run with the first n examples, or holding them in another order.
Stores ==
    {NoDataset}
    \cup { [exists |-> TRUE, examples |-> [i \in 1..n |-> Example(i)]] :
             n \in 0..MaxExamples }
    \cup { [exists |-> TRUE,
            examples |-> [i \in 1..MaxExamples |-> Example(MaxExamples + 1 - i)]] }

NoResult == [answer |-> EmptyStr, reference |-> EmptyStr, question |-> EmptyStr]

\* The evaluation state before main runs.
InitEvaluation ==
    /\ storeCalls = <<>>
    /\ storeError = 0
    /\ pullCalls = <<>>
    /\ loaded = <<>>
    /\ examples = <<>>
    /\ idx = 0
    /\ result = NoResult
    /\ runLog = <<>>
    /\ evalCalls = 0
    /\ evalLog = <<>>
    /\ tone_scores = <<>>
    /\ acceptance_criteria_scores = <<>>
    /\ format_scores = <<>>
    /\ completeness_scores = <<>>
    /\ aborted = FALSE
    /\ scores = ZeroScores
    /\ passed = FALSE
    /\ exitCode = -1

\* The push script before it runs.
InitCli ==
    /\ skip_tests = FALSE
    /\ prompt_file = None
    /\ returncode = -1
    /\ is_valid = FALSE
    /\ errors = <<>>

\* The Hub scripts before they run.
InitHub ==
    /\ prompt_data = <<>>
    /\ hubRepo = NoPrompt
    /\ pushed = FALSE
    /\ pulled = <<>>
    /\ pullOk = FALSE
    /\ raised = "none"
    /\ InitCli
    /\ pushCalls = <<>>

Init ==
    /\ env \in Envs
    /\ argv = "ok"
    /\ max_examples \in -1..(MaxExamples + 1)
    /\ file \in MainFiles
    /\ store \in Stores
    /\ pc = "main"
    /\ InitEvaluation
    /\ InitHub

cliVars == <<skip_tests, prompt_file, returncode, is_valid, errors>>

hubVars == <<prompt_data, hubRepo, pushed, pulled, pullOk, raised, cliVars,
             pushCalls>>

inputVars == <<argv, env, max_examples, file>>

listVars == <<tone_scores, acceptance_criteria_scores, format_scores,
              completeness_scores>>

(***************************************************************************)
(* main of evaluate.py, up to the call of evaluate_prompt                  *)
(***************************************************************************)
\* What parser.parse_args() makes of a command line: the arguments, or a
\* usage error (an option it does not know, a --max-examples that is not
\* an integer), or the request for help.
Args == {"ok", "usage_error", "help"}

\* parse_args: the status the process exits with, -1 when it returns
ParseArgsExit(a) ==
    CASE a = "usage_error" -> 2
      [] a = "help"        -> 0
      [] OTHER             -> -1

\* main: args = parser.parse_args()
ParseArgs ==
    /\ pc = "parse_args"
    /\ IF ParseArgsExit(argv) = -1
       THEN pc' = "main" /\ exitCode' = exitCode
       ELSE pc' = "exit" /\ exitCode' = ParseArgsExit(argv)
    /\ UNCHANGED <<inputVars, store, storeCalls, storeError,
                   pullCalls, loaded, examples,
                   idx, result, runLog, evalCalls, evalLog, listVars, aborted, scores,
                   passed, hubVars>>

\* main: check_env_vars(required_vars), return 1 when it fails
CheckEnv ==
    /\ pc = "main"
    /\ IF CheckEnvVars(env, RequiredVars(env))
       THEN pc' = "check_file" /\ exitCode' = exitCode
       ELSE pc' = "exit" /\ exitCode' = 1
    /\ UNCHANGED <<inputVars, store, storeCalls, storeError,
                   pullCalls, loaded, examples,
                   idx, result, runLog, evalCalls, evalLog, listVars, aborted, scores,
                   passed, hubVars>>

\* main: Path(jsonl_path).exists(), return 1 when it does not
CheckFile ==
    /\ pc = "check_file"
    /\ IF file.exists
       THEN pc' = "create_dataset" /\ exitCode' = exitCode
       ELSE pc' = "exit" /\ exitCode' = 1
    /\ UNCHANGED <<inputVars, store, storeCalls, storeError,
                   pullCalls, loaded, examples,
                   idx, result, runLog, evalCalls, evalLog, listVars, aborted, scores,
                   passed, hubVars>>

\* main: create_evaluation_dataset(client, dataset_name, jsonl_path)
CreateDataset ==
    /\ pc = "create_dataset"
    /\ loaded' = LoadDatasetFromJsonl(file).value
    /\ \E failAt \in 0..Len(DatasetCalls(store, loaded')) :
         LET r == CreateEvaluationDataset(store, loaded', failAt) IN
         /\ store' = r.store
         /\ storeCalls' = storeCalls \o r.calls
         /\ storeError' = failAt
    /\ pc' = "pull"
    /\ UNCHANGED <<inputVars, pullCalls, examples, idx, result, runLog,
                   evalCalls, evalLog, listVars, aborted, scores, passed, exitCode,
                   hubVars>>

(***************************************************************************)
(* evaluate_prompt                                                         *)
(***************************************************************************)
\* What hub.pull can do.
PullOutcomes == {"ok", "not_found", "authentication", "network"}

\* The except branch of evaluate_prompt returning the means of the scores
\* appended before the exception.
ExceptBranchKeepsScores ==
    /\ scores' = AggregateScores(tone_scores, acceptance_criteria_scores,
                                 format_scores, completeness_scores)
    /\ aborted' = TRUE
    /\ pc' = "display"

\* The except branch of evaluate_prompt: the all-zero dict is returned.
ExceptBranch ==
    /\ scores' = ZeroScores
    /\ aborted' = TRUE
    /\ pc' = "display"

\* pull_prompt_from_langsmith re-raising only in its "not found" branch.
PullPromptRaisesOnlyNotFound(outcome) == [raises |-> outcome = "not_found"]

\* pull_prompt_from_langsmith, given what hub.pull does: whether an
\* exception leaves the function (it prints its advice and re-raises)
PullPromptFromLangsmith(outcome) == [raises |-> outcome # "ok"]

\* evaluate_prompt: prompt_template = pull_prompt_from_langsmith(prompt_name)
PullPrompt ==
    /\ pc = "pull"
    /\ \E o \in PullOutcomes :
         /\ pullCalls' = Append(pullCalls, o)
         /\ IF PullPromptFromLangsmith(o).raises
            THEN ExceptBranch
            ELSE pc' = "list" /\ aborted' = FALSE /\ UNCHANGED scores
    /\ UNCHANGED <<inputVars, store, storeCalls, storeError,
                   loaded, examples, idx,
                   result, runLog, evalCalls, evalLog, listVars, passed, exitCode,
                   hubVars>>

\* evaluate_prompt: list(client.list_examples(dataset_name=dataset_name))
ListExamples ==
    /\ pc = "list"
    /\ storeCalls' = Append(storeCalls, "list_examples")
    /\ \/ /\ examples' = store.examples
          /\ pc' = "llm"
          /\ UNCHANGED <<scores, aborted>>
       \/ /\ examples' = examples
          /\ ExceptBranch
    /\ UNCHANGED <<inputVars, store, storeError, pullCalls, loaded, idx, result,
                   runLog,
                   evalCalls, evalLog, listVars, passed, exitCode, hubVars>>

\* evaluate_prompt: get_llm(), and the four empty score lists
GetLlm ==
    /\ pc = "llm"
    /\ \/ /\ pc' = "loop"
          /\ tone_scores' = <<>>
          /\ acceptance_criteria_scores' = <<>>
          /\ format_scores' = <<>>
          /\ completeness_scores' = <<>>
          /\ UNCHANGED <<scores, aborted>>
       \/ /\ ExceptBranch
          /\ UNCHANGED listVars
    /\ UNCHANGED <<inputVars, store, storeCalls, storeError,
                   pullCalls, loaded, examples,
                   idx, result, runLog, evalCalls, evalLog, passed, exitCode, hubVars>>

\* evaluate_prompt: one iteration of the loop up to "if result[answer]"
RunExample ==
    /\ pc = "loop"
    /\ idx < Len(Slice(examples, max_examples))
    /\ LET example == Slice(examples, max_examples)[idx + 1] IN
       \E o \in RunnerOutcomes :
         LET r == EvaluatePromptOnExample(example, o) IN
         /\ runLog' = Append(runLog, [id |-> example.id, outcome |-> o,
                                      answered |-> r.exc = "none"
                                                   /\ r.value.answer # EmptyStr])
         /\ IF r.exc # "none"
            THEN ExceptBranch /\ UNCHANGED <<result, idx>>
            ELSE /\ result' = r.value
                 /\ UNCHANGED <<scores, aborted>>
                 /\ IF r.value.answer # EmptyStr
                    THEN pc' = "score" /\ idx' = idx
                    ELSE pc' = "loop" /\ idx' = idx + 1
    /\ UNCHANGED <<inputVars, store, storeCalls, storeError,
                   pullCalls, loaded, examples,
                   evalCalls, evalLog, listVars, passed, exitCode, hubVars>>

\* evaluate_prompt: the four evaluators return and their scores are appended
ScoreExample ==
    /\ pc = "score"
    /\ \E t \in ScoreTuples :
         /\ tone_scores' = Append(tone_scores, t[1])
         /\ acceptance_criteria_scores' = Append(acceptance_criteria_scores, t[2])
         /\ format_scores' = Append(format_scores, t[3])
         /\ completeness_scores' = Append(completeness_scores, t[4])
         /\ evalLog' = Append(evalLog, [id |-> runLog[Len(runLog)].id, scores |-> t])
    /\ evalCalls' = evalCalls + Cardinality(Metrics)
    /\ idx' = idx + 1
    /\ pc' = "loop"
    /\ UNCHANGED <<inputVars, store, storeCalls, storeError,
                   pullCalls, loaded, examples,
                   result, runLog, aborted, scores, passed, exitCode, hubVars>>

\* evaluate_prompt: the k-th evaluator called for the example raises
EvaluatorRaises ==
    /\ pc = "score"
    /\ \E k \in 1..Cardinality(Metrics) : evalCalls' = evalCalls + k
    /\ ExceptBranch
    /\ UNCHANGED <<inputVars, store, storeCalls, storeError,
                   pullCalls, loaded, examples,
                   idx, result, runLog, evalLog, listVars, passed, exitCode, hubVars>>

\* evaluate_prompt: the averages and the returned dict
Aggregate ==
    /\ pc = "loop"
    /\ idx = Len(Slice(examples, max_examples))
    /\ scores' = AggregateScores(tone_scores, acceptance_criteria_scores,
                                 format_scores, completeness_scores)
    /\ pc' = "display"
    /\ UNCHANGED <<inputVars, store, storeCalls, storeError,
                   pullCalls, loaded, examples,
                   idx, result, runLog, evalCalls, evalLog, listVars, aborted, passed,
                   exitCode, hubVars>>

(***************************************************************************)
(* main of evaluate.py, after evaluate_prompt                              *)
(***************************************************************************)
\* main: passed = display_results(prompt_name, scores)
DisplayResults ==
    /\ pc = "display"
    /\ passed' = DisplayResultsValue(scores)
    /\ pc' = "return"
    /\ UNCHANGED <<inputVars, store, storeCalls, storeError,
                   pullCalls, loaded, examples,
                   idx, result, runLog, evalCalls, evalLog, listVars, aborted, scores,
                   exitCode, hubVars>>

\* main returning 0 whatever the verdict.
MainExitCodeAlwaysZero(all_passed) == 0

\* main: return 0 if all_passed else 1
MainExitCode(all_passed) == IF all_passed THEN 0 ELSE 1

\* main: all_passed = all_passed and passed, and the return
MainReturn ==
    /\ pc = "return"
    /\ exitCode' = MainExitCode(TRUE /\ passed)
    /\ pc' = "exit"
    /\ UNCHANGED <<inputVars, store, storeCalls, storeError,
                   pullCalls, loaded, examples,
                   idx, result, runLog, evalCalls, evalLog, listVars, aborted, scores,
                   passed, hubVars>>

Next ==
    \/ CheckEnv
    \/ CheckFile
    \/ CreateDataset
    \/ PullPrompt
    \/ ListExamples
    \/ GetLlm
    \/ RunExample
    \/ ScoreExample
    \/ EvaluatorRaises
    \/ Aggregate
    \/ DisplayResults
    \/ MainReturn

Spec == Init /\ [][Next]_vars

(***************************************************************************)
(* Specification of a run of main of evaluate.py on any command line       *)
(***************************************************************************)
InitMain ==
    /\ argv \in Args
    /\ env \in Envs
    /\ max_examples \in -1..(MaxExamples + 1)
    /\ file \in MainFiles
    /\ store \in Stores
    /\ pc = "parse_args"
    /\ InitEvaluation
    /\ InitHub

NextMain == ParseArgs \/ Next

SpecMain == InitMain /\ [][NextMain]_vars

(***************************************************************************)
(* Specification of the Dataset Loader alone                               *)
(***************************************************************************)
\* The lines a file may hold.
Lines ==
    { <<>>, <<WS>>, <<Bad>> }
    \cup { <<J(k)>> : k \in 1..MaxExamples }
    \cup { <<WS, J(k), WS>> : k \in 1..MaxExamples }

\* f is the missing file or a file of up to MaxLines lines, readable or
\* failing at some line.
IsLoaderFile(f) ==
    \/ f = MissingFile
    \/ \E n \in 0..MaxLines :
         \E ls \in [1..n -> Lines], e \in 0..(n + 1) :
            f = [exists |-> TRUE, lines |-> ls, errAt |-> e]

evalVars == <<store, storeCalls, storeError, pullCalls, examples, idx, result, runLog,
              evalCalls, evalLog, listVars, aborted, scores, passed, exitCode>>

InitLoader ==
    /\ env = FullEnv
    /\ argv = "ok"
    /\ max_examples = 0
    /\ IsLoaderFile(file)
    /\ store = NoDataset
    /\ pc = "load"
    /\ InitEvaluation
    /\ InitHub

\* examples = load_dataset_from_jsonl(jsonl_path)
LoadDataset ==
    /\ pc = "load"
    /\ loaded' = LoadDatasetFromJsonl(file).value
    /\ raised' = LoadDatasetFromJsonl(file).raised
    /\ pc' = "loaded"
    /\ UNCHANGED <<inputVars, evalVars, prompt_data, hubRepo, pushed, pulled,
                   pullOk, cliVars, pushCalls>>

NextLoader == LoadDataset

SpecLoader == InitLoader /\ [][NextLoader]_vars

(***************************************************************************)
(* Specification of display_results and the exit code alone                *)
(***************************************************************************)
\* Aggregate scores around the threshold.
DisplayScores == {0, 8999, 9000, 9001, 10000}

InitDisplay ==
    /\ env = FullEnv
    /\ argv = "ok"
    /\ max_examples = 0
    /\ file = GoodFile(0)
    /\ store = NoDataset
    /\ pc = "display"
    /\ storeCalls = <<>>
    /\ storeError = 0
    /\ pullCalls = <<>>
    /\ loaded = <<>>
    /\ examples = <<>>
    /\ idx = 0
    /\ result = NoResult
    /\ runLog = <<>>
    /\ evalCalls = 0
    /\ evalLog = <<>>
    /\ tone_scores = <<>>
    /\ acceptance_criteria_scores = <<>>
    /\ format_scores = <<>>
    /\ completeness_scores = <<>>
    /\ aborted = FALSE
    /\ scores \in [Metrics -> DisplayScores]
    /\ passed = FALSE
    /\ exitCode = -1
    /\ InitHub

NextDisplay == DisplayResults \/ MainReturn

SpecDisplay == InitDisplay /\ [][NextDisplay]_vars

(***************************************************************************)
(* Specification of a push followed by a pull of the same prompt           *)
(***************************************************************************)
Roles == {"system", "human", "ai", "user", "assistant", "tool"}

Contents ==
    {Str("text", 1), Str("text {bug_report}", 2), EmptyStr, Blank, BadTemplate}

\* A message of the YAML structure; the role or the content may be absent.
Msgs ==
    { [role |-> r, content |-> c] : r \in Roles, c \in Contents }
    \cup { [content |-> c] : c \in Contents }
    \cup { [role |-> r] : r \in Roles }

\* The description and techniques_applied keys of a YAML structure: absent,
\* a text, a list with or without the extra tag, or null.
NoMetadata == <<>>

Metadatas ==
    { NoMetadata,
      [description |-> Text("description"),
       techniques_applied |-> List(<<"few-shot">>)],
      [techniques_applied |-> List(<<"few-shot", ExtraTag>>)],
      [techniques_applied |-> Text("few-shot")],
      [techniques_applied |-> None],
      [description |-> None, techniques_applied |-> List(<<>>)],
      [description |-> None] }

\* The message lists the metadata are combined with: a valid prompt, a
\* prompt of one message, and one whose role is not a message type.
MetadataMessages ==
    { <<[role |-> "system", content |-> Str("text", 1)],
        [role |-> "human", content |-> Str("text {bug_report}", 2)]>>,
      <<[role |-> "system", content |-> Str("text", 1)]>>,
      <<[role |-> "tool", content |-> Str("text", 1)]>> }

\* d is a YAML structure without messages, with up to MaxMsgs of them, or
\* with messages and metadata.
IsPromptData(d) ==
    \/ d = [description |-> Text("description")]
    \/ \E n \in 0..MaxMsgs : \E ms \in [1..n -> Msgs] : d = [messages |-> ms]
    \/ \E md \in Metadatas \ {NoMetadata} : \E ms \in MetadataMessages :
          d = md @@ [messages |-> ms]

\* A message template built from a (role, content) pair by someone else.
OldMessage(role) ==
    [class |-> MessageClass(role), prompt |-> [template |-> Str("old", 0)]]

\* The prompt an earlier push left in the Hub.
OldPrompt == ChatPrompt(<<OldMessage("system")>>)

\* Prompts of other authors: a ChatMessagePromptTemplate, a
\* MessagesPlaceholder (no attribute prompt), a message whose prompt is a
\* list of parts (no attribute template), a chat prompt without messages,
\* and a prompt that is not a chat prompt (no attribute messages).
ForeignPrompts ==
    { ChatPrompt(<<[class |-> <<"Chat", "Message", "PromptTemplate">>,
                    prompt |-> [template |-> Str("old", 0)]]>>),
      ChatPrompt(<<OldMessage("system"),
                   [class |-> <<"Message", "s", "Placeholder">>,
                    variable_name |-> "history"]>>),
      ChatPrompt(<<[class |-> MessageClass("human"),
                    prompt |-> List(<<[template |-> Str("old", 0)]>>)]>>),
      ChatPrompt(<<>>),
      [template |-> Str("old", 0)] }

InitRoundTrip ==
    /\ env \in {FullEnv, [FullEnv EXCEPT !["LANGSMITH_API_KEY"] = Unset]}
    /\ argv = "ok"
    /\ max_examples = 0
    /\ file = GoodFile(0)
    /\ store = NoDataset
    /\ pc = "push"
    /\ InitEvaluation
    /\ \/ /\ IsPromptData(prompt_data)
          /\ hubRepo \in {NoPrompt, OldPrompt}
       \/ /\ \E ms \in MetadataMessages : prompt_data = [messages |-> ms]
          /\ hubRepo \in ForeignPrompts
    /\ pushed = FALSE
    /\ pulled = <<>>
    /\ pullOk = FALSE
    /\ raised = "none"
    /\ InitCli
    /\ pushCalls = <<>>

\* success = push_prompt_to_langsmith(prompt_name, prompt_data)
Push ==
    /\ pc = "push"
    /\ \E o \in PushOutcomes :
         LET r == PushPromptToLangsmith(prompt_data, hubRepo, o) IN
         /\ pushed' = r.ok
         /\ hubRepo' = r.repo
         /\ pushCalls' = pushCalls \o r.sent
         /\ prompt_data' = r.data
    /\ pc' = "pull"
    /\ UNCHANGED <<inputVars, loaded, evalVars, pulled, pullOk, raised,
                   cliVars>>

\* main of pull_prompts.py: success = pull_prompts_from_langsmith(...);
\* return 0 if success else 1
Pull ==
    /\ pc = "pull"
    /\ \E o \in PullOutcomes, saved \in BOOLEAN :
         LET r == PullPromptsFromLangsmith(env, hubRepo, o, saved) IN
         /\ o = HubPull(hubRepo, o)
         /\ pullOk' = r.ok
         /\ pulled' = r.messages
         /\ pullCalls' = pullCalls \o r.calls
         /\ exitCode' = IF r.ok THEN 0 ELSE 1
    /\ pc' = "pulled"
    /\ UNCHANGED <<inputVars, loaded, store, storeCalls, storeError,
                   examples, idx, result, runLog, evalCalls,
                   evalLog, listVars, aborted, scores, passed, prompt_data,
                   hubRepo, pushed, raised, cliVars, pushCalls>>

NextRoundTrip == Push \/ Pull

SpecRoundTrip == InitRoundTrip /\ [][NextRoundTrip]_vars

(***************************************************************************)
(* Specification of the Example Runner alone                               *)
(***************************************************************************)
InputKeys == {"question", "bug_report", "pr_title", "title"}

\* example.inputs: a mapping with any of the keys, or not a mapping.
RunnerInputs ==
    { [k \in ks |-> Str(k, 1)] : ks \in SUBSET InputKeys } \cup {None}

\* example.outputs: a mapping with or without "reference", or not a mapping.
RunnerOutputs ==
    { [k \in ks |-> Str(k, 1)] : ks \in SUBSET {"reference", "notes"} }
    \cup {None}

InitRunner ==
    /\ env = FullEnv
    /\ argv = "ok"
    /\ max_examples = 1
    /\ file = GoodFile(0)
    /\ store = NoDataset
    /\ pc = "loop"
    /\ storeCalls = <<>>
    /\ storeError = 0
    /\ pullCalls = <<>>
    /\ loaded = <<>>
    /\ \E i \in RunnerInputs, o \in RunnerOutputs :
         examples = <<[id |-> 1, inputs |-> i, outputs |-> o]>>
    /\ idx = 0
    /\ result = NoResult
    /\ runLog = <<>>
    /\ evalCalls = 0
    /\ evalLog = <<>>
    /\ tone_scores = <<>>
    /\ acceptance_criteria_scores = <<>>
    /\ format_scores = <<>>
    /\ completeness_scores = <<>>
    /\ aborted = FALSE
    /\ scores = ZeroScores
    /\ passed = FALSE
    /\ exitCode = -1
    /\ InitHub

NextRunner == RunExample

SpecRunner == InitRunner /\ [][NextRunner]_vars

(***************************************************************************)
(* Specification of main of push_prompts.py                                *)
(***************************************************************************)
\* What the pytest run can return.
PytestReturnCodes == {0, 1}

\* bool(x) of what load_yaml returned: None and the empty mapping are false
Truthy(x) == x # None /\ DOMAIN x # {}

InitPush ==
    /\ env \in {FullEnv, [FullEnv EXCEPT !["LANGSMITH_API_KEY"] = Unset]}
    /\ argv = "ok"
    /\ max_examples = 0
    /\ file = GoodFile(0)
    /\ store = NoDataset
    /\ pc = "push_main"
    /\ InitEvaluation
    /\ prompt_data = <<>>
    /\ hubRepo = NoPrompt
    /\ pushed = FALSE
    /\ pulled = <<>>
    /\ pullOk = FALSE
    /\ raised = "none"
    /\ skip_tests \in BOOLEAN
    /\ \/ prompt_file \in {None, <<>>}
       \/ IsPromptData(prompt_file)
    /\ returncode = -1
    /\ is_valid = FALSE
    /\ errors = <<>>
    /\ pushCalls = <<>>

\* main: check_env_vars(["LANGSMITH_API_KEY"]), return 1 when it fails
CheckCredentials ==
    /\ pc = "push_main"
    /\ IF CheckEnvVars(env, <<"LANGSMITH_API_KEY">>)
       THEN pc' = "pytest" /\ exitCode' = exitCode
       ELSE pc' = "exit" /\ exitCode' = 1
    /\ UNCHANGED <<inputVars, loaded, store, storeCalls, storeError,
                   pullCalls, examples,
                   idx, result, runLog, evalCalls, evalLog, listVars, aborted,
                   scores, passed, hubVars>>

\* main: the pytest run unless --skip-tests, return 1 when it fails
RunTests ==
    /\ pc = "pytest"
    /\ IF skip_tests
       THEN pc' = "load_yaml" /\ UNCHANGED <<returncode, exitCode>>
       ELSE \E rc \in PytestReturnCodes :
              /\ returncode' = rc
              /\ IF rc # 0
                 THEN pc' = "exit" /\ exitCode' = 1
                 ELSE pc' = "load_yaml" /\ exitCode' = exitCode
    /\ UNCHANGED <<inputVars, loaded, store, storeCalls, storeError,
                   pullCalls, examples,
                   idx, result, runLog, evalCalls, evalLog, listVars, aborted,
                   scores, passed, prompt_data, hubRepo, pushed, pulled, pullOk,
                   raised, skip_tests, prompt_file, is_valid, errors, pushCalls>>

\* main: prompt_data = load_yaml(args.prompt_file), return 1 when it is false
LoadPrompt ==
    /\ pc = "load_yaml"
    /\ prompt_data' = prompt_file
    /\ IF ~Truthy(prompt_file)
       THEN pc' = "exit" /\ exitCode' = 1
       ELSE pc' = "validate" /\ exitCode' = exitCode
    /\ UNCHANGED <<inputVars, loaded, store, storeCalls, storeError,
                   pullCalls, examples,
                   idx, result, runLog, evalCalls, evalLog, listVars, aborted,
                   scores, passed, hubRepo, pushed, pulled, pullOk, raised,
                   cliVars, pushCalls>>

\* main: is_valid, errors = validate_prompt(prompt_data), return 1 when invalid
Validate ==
    /\ pc = "validate"
    /\ is_valid' = ValidatePrompt(prompt_data).is_valid
    /\ errors' = ValidatePrompt(prompt_data).errors
    /\ IF ~is_valid'
       THEN pc' = "exit" /\ exitCode' = 1
       ELSE pc' = "push_prompt" /\ exitCode' = exitCode
    /\ UNCHANGED <<inputVars, loaded, store, storeCalls, storeError,
                   pullCalls, examples,
                   idx, result, runLog, evalCalls, evalLog, listVars, aborted,
                   scores, passed, prompt_data, hubRepo, pushed, pulled, pullOk,
                   raised, skip_tests, prompt_file, returncode, pushCalls>>

\* main: success = push_prompt_to_langsmith(...); return 0 if success else 1
PushPrompt ==
    /\ pc = "push_prompt"
    /\ \E o \in PushOutcomes :
         LET r == PushPromptToLangsmith(prompt_data, hubRepo, o) IN
         /\ pushed' = r.ok
         /\ hubRepo' = r.repo
         /\ pushCalls' = pushCalls \o r.sent
         /\ prompt_data' = r.data
         /\ exitCode' = IF r.ok THEN 0 ELSE 1
    /\ pc' = "exit"
    /\ UNCHANGED <<inputVars, loaded, store, storeCalls, storeError,
                   pullCalls, examples,
                   idx, result, runLog, evalCalls, evalLog, listVars, aborted,
                   scores, passed, pulled, pullOk, raised, cliVars>>

NextPush ==
    \/ CheckCredentials
    \/ RunTests
    \/ LoadPrompt
    \/ Validate
    \/ PushPrompt

SpecPush == InitPush /\ [][NextPush]_vars

(***************************************************************************)
(* Specification of successive runs of main of evaluate.py against one     *)
(* dataset store                                                           *)
(***************************************************************************)
\* The runs are made with --max-examples 0: the loop of evaluate_prompt
\* processes no example.
InitDataset ==
    /\ env = FullEnv
    /\ argv = "ok"
    /\ max_examples = 0
    /\ file \in MainFiles
    /\ store = NoDataset
    /\ pc = "parse_args"
    /\ InitEvaluation
    /\ InitHub

\* The script is run again, with the same file and the dataset store as
\* the earlier runs left it.  A run that reaches evaluate_prompt calls
\* hub.pull once, and at most MaxRuns such runs are made.
RunAgain ==
    /\ pc = "exit"
    /\ Len(pullCalls) < MaxRuns
    /\ pc' = "parse_args"
    /\ UNCHANGED <<inputVars, loaded, evalVars, hubVars>>

NextDataset ==
    \/ ParseArgs
    \/ CheckEnv
    \/ CheckFile
    \/ CreateDataset
    \/ PullPrompt
    \/ ListExamples
    \/ GetLlm
    \/ Aggregate
    \/ DisplayResults
    \/ MainReturn
    \/ RunAgain

SpecDataset == InitDataset /\ [][NextDataset]_vars

(***************************************************************************)
(* Properties                                                              *)
(***************************************************************************)
\* evaluate_prompt has returned.
Returned == pc \in {"display", "return"} \/ (pc = "exit" /\ pullCalls # <<>>)

MetricIndex(m) ==
    CASE m = "tone" -> 1
      [] m = "acceptance_criteria" -> 2
      [] m = "format" -> 3
      [] m = "completeness" -> 4

\* The scores the evaluator of metric m returned, one per scored example.
ReturnedScores(m) == [i \in 1..Len(evalLog) |-> evalLog[i].scores[MetricIndex(m)]]

RECURSIVE Total(_)
Total(xs) == IF xs = <<>> THEN 0 ELSE xs[1] + Total(Tail(xs))

\* v is the arithmetic mean of xs rounded to 4 decimals (0.0 for no score).
IsRoundedMean(v, xs) ==
    IF xs = <<>> THEN v = 0
    ELSE /\ 2 * (v * Len(xs) - Total(xs)) <= Len(xs)
         /\ 2 * (Total(xs) - v * Len(xs)) <= Len(xs)

IsAnswered(e) == e.answered

\* The ids of the processed examples whose answer was non-empty.
AnsweredIds == ExampleIds(SelectSeq(runLog, IsAnswered))

AllZero(sc) == \A m \in Metrics : sc[m] = 0

\* C1, as stated: whenever evaluate_prompt has returned, each of the four
\* values is the mean, rounded to 4 decimals, of that metric's scores over
\* the processed examples with a non-empty answer.
C1_MeanForEveryOutcome ==
    Returned => \A m \in Metrics : IsRoundedMean(scores[m], ReturnedScores(m))

\* C1, amended: when the try body of evaluate_prompt completes, each value
\* is the mean, rounded to 4 decimals, of that metric's scores over exactly
\* the processed examples with a non-empty answer, 0.0 when there is none,
\* and then the verdict is fail; when an exception ends the try body (an
\* evaluator raising included), all four values are 0.0 whatever was scored.
C1_MeanUnlessAborted ==
    Returned =>
        IF aborted THEN AllZero(scores)
        ELSE /\ ExampleIds(evalLog) = AnsweredIds
             /\ \A m \in Metrics : IsRoundedMean(scores[m], ReturnedScores(m))
             /\ AnsweredIds = <<>> => AllZero(scores)
             /\ AnsweredIds = <<>> /\ pc \in {"return", "exit"} => ~passed

\* C1: three examples run, one failed and left out, two scored and averaged.
C1_Witness ==
    /\ pc = "display"
    /\ ~aborted
    /\ Len(runLog) = 3
    /\ Len(evalLog) = 2
    /\ \E i \in 1..Len(runLog) : runLog[i].outcome = "model_error"
    /\ scores["completeness"] = 7500

\* C2: once hub.pull has failed, evaluate_prompt returns the four scores 0.0
\* through its except branch, runs no example and calls no evaluator.
C2_PullFailureGivesZeros ==
    (pullCalls # <<>> /\ pullCalls[Len(pullCalls)] # "ok") =>
        /\ pc \in {"display", "return", "exit"}
        /\ aborted
        /\ AllZero(scores)
        /\ runLog = <<>>
        /\ evalCalls = 0
        /\ examples = <<>>

\* C2: an authentication failure of the pull, after main has returned.
C2_Witness ==
    /\ pc = "exit"
    /\ pullCalls = <<"authentication">>
    /\ exitCode = 1

\* C3: display_results returns true iff every one of the four scores is
\* >= 0.9; 0.9000 passes, 0.8999 fails, one metric below fails the verdict.
C3_VerdictIffAllAtLeastThreshold ==
    pc \in {"return", "exit"} =>
        /\ passed <=> (/\ scores["tone"] >= 9000
                       /\ scores["acceptance_criteria"] >= 9000
                       /\ scores["format"] >= 9000
                       /\ scores["completeness"] >= 9000)
        /\ (\A m \in Metrics : scores[m] = 9000) => passed
        /\ (\E m \in Metrics : scores[m] = 8999) => ~passed

\* C3: a pass with one score exactly at the threshold.
C3_Witness ==
    /\ pc = "return"
    /\ passed
    /\ scores["tone"] = 9000
    /\ scores["format"] = 10000

\* C4, as stated: when the process has exited, the exit code is 0 iff every
\* metric of the evaluated prompt is >= 0.9, and 1 in every other run.
C4_ExitCodeIffPass ==
    pc = "exit" =>
        /\ exitCode \in {0, 1}
        /\ exitCode = 0 <=> (Returned /\ \A m \in Metrics : scores[m] >= 9000)
        /\ ~CheckEnvVars(env, RequiredVars(env)) => exitCode = 1
        /\ ~file.exists => exitCode = 1
        /\ aborted => exitCode = 1

\* No step of main after parse_args has run.
NothingRun ==
    /\ storeCalls = <<>>
    /\ pullCalls = <<>>
    /\ loaded = <<>>
    /\ runLog = <<>>
    /\ evalCalls = 0
    /\ ~passed

\* C4: when the process has exited after the argument parser accepted the
\* command line, the exit code is 0 iff every metric of the evaluated
\* prompt is >= 0.9, and 1 in every other such run; a command line the
\* parser rejects exits with 2 and a request for help with 0, both before
\* anything of main has run and whatever the credentials and the file.
C4_ExitCodeIffPassOnceParsed ==
    pc = "exit" =>
        /\ argv = "ok" =>
              /\ exitCode \in {0, 1}
              /\ exitCode = 0 <=>
                    (Returned /\ \A m \in Metrics : scores[m] >= 9000)
              /\ ~CheckEnvVars(env, RequiredVars(env)) => exitCode = 1
              /\ ~file.exists => exitCode = 1
              /\ aborted => exitCode = 1
        /\ argv = "usage_error" => exitCode = 2 /\ NothingRun
        /\ argv = "help" => exitCode = 0 /\ NothingRun

\* C4: the parser accepted the command line, and the run passes at the
\* boundary and exits with 0.
C4_Witness ==
    /\ pc = "exit"
    /\ argv = "ok"
    /\ exitCode = 0
    /\ scores["format"] = 9000

IsRunnerFailure(e) == e.outcome \in {"render_error", "model_error"}

\* C5: a failed rendering or model call gives the all-empty result, adds
\* nothing to the score lists, and leaves the loop going: the next example
\* of the batch is run, or is about to be.
C5_RunnerFailureSkipsOnlyThatExample ==
    /\ \A i \in 1..Len(runLog) :
         IsRunnerFailure(runLog[i]) =>
            /\ ~runLog[i].answered
            /\ \A j \in 1..Len(evalLog) : evalLog[j].id # runLog[i].id
            /\ \/ Len(runLog) > i
               \/ i = Len(Slice(examples, max_examples))
               \/ pc = "loop" /\ idx = i /\ ~aborted
            /\ i = Len(runLog) => result = NoResult
    /\ Len(tone_scores) = Len(evalLog)
    /\ Len(acceptance_criteria_scores) = Len(tone_scores)
    /\ Len(format_scores) = Len(tone_scores)
    /\ Len(completeness_scores) = Len(tone_scores)

\* C5: the first example failed and the two after it were run and scored.
C5_Witness ==
    /\ pc = "display"
    /\ ~aborted
    /\ Len(runLog) = 3
    /\ IsRunnerFailure(runLog[1])
    /\ ExampleIds(evalLog) = <<runLog[2].id, runLog[3].id>>

\* A required credential or environment variable is missing.
MissingCredential ==
    \/ env["LANGSMITH_API_KEY"] = Unset
    \/ env["LLM_PROVIDER"] = Unset
    \/ env["LLM_PROVIDER"] = "openai" /\ env["OPENAI_API_KEY"] = Unset
    \/ env["LLM_PROVIDER"] \in {"google", "gemini"} /\ env["GOOGLE_API_KEY"] = Unset

\* C6: with a required credential or environment variable missing, main
\* returns a non-zero exit code and no evaluation step ever happens: no
\* dataset-store call, no registry pull, no model invocation, no evaluator
\* call.
C6_MissingCredentialStopsBeforeEvaluation ==
    MissingCredential =>
        /\ pc \in {"main", "exit"}
        /\ pc = "exit" => exitCode = 1
        /\ storeCalls = <<>>
        /\ pullCalls = <<>>
        /\ runLog = <<>>
        /\ evalCalls = 0

\* C6: the google provider is selected, GOOGLE_API_KEY is missing, and main
\* has returned 1 although the file and the dataset are there.
C6_Witness ==
    /\ pc = "exit"
    /\ exitCode = 1
    /\ env["LLM_PROVIDER"] = "google"
    /\ env["GOOGLE_API_KEY"] = Unset
    /\ env["LANGSMITH_API_KEY"] # Unset
    /\ env["OPENAI_API_KEY"] # Unset
    /\ file.exists
    /\ store.examples # <<>>

IsNotWS(t) == t # WS

\* The text of a line without its white space.
Payload(line) == SelectSeq(line, IsNotWS)

IsBlank(line) == Payload(line) = <<>>

IsJsonLine(line) == Len(Payload(line)) = 1 /\ Payload(line)[1].t = "json"

\* The file is there, is read to its end, and each of its non-blank lines
\* is the JSON text of a record.
WellFormed(f) ==
    /\ f.exists
    /\ f.errAt = 0
    /\ \A i \in 1..Len(f.lines) : IsBlank(f.lines[i]) \/ IsJsonLine(f.lines[i])

\* The records of the non-blank lines of a well-formed file, in file order.
RECURSIVE RecordsOf(_)
RecordsOf(lines) ==
    IF lines = <<>> THEN <<>>
    ELSE IF IsBlank(Head(lines)) THEN RecordsOf(Tail(lines))
    ELSE <<Example(Payload(Head(lines))[1].ex)>> \o RecordsOf(Tail(lines))

\* C7, as stated: when loading the dataset file fails, no example is run
\* and all four aggregate scores are 0.0, whatever the dataset store holds.
C7_LoadFailureGivesZeros ==
    (~WellFormed(file) /\ pc \in {"display", "return", "exit"}) =>
        /\ runLog = <<>>
        /\ AllZero(scores)

\* C7, amended: when loading the dataset file fails, the loader returns the
\* empty sequence and create_evaluation_dataset makes no dataset-store call;
\* a missing file makes main return 1 without evaluating; otherwise the
\* evaluation runs on what the dataset store already lists under that name,
\* so that no example is run and all four scores are 0.0 when the store
\* lists none.
C7_LoadFailureEvaluatesTheStore ==
    ~WellFormed(file) =>
        /\ loaded = <<>>
        /\ \A i \in 1..Len(storeCalls) : storeCalls[i] = "list_examples"
        /\ ~file.exists => (pullCalls = <<>> /\ runLog = <<>>
                            /\ (pc = "exit" => exitCode = 1))
        /\ store.examples = <<>> => (runLog = <<>> /\ AllZero(scores))
        /\ \A i \in 1..Len(runLog) : runLog[i].id = store.examples[i].id

\* C7: a malformed file, a dataset store that lists no example, and a run
\* that listed the examples and ended with the scores 0.0.
C7_Witness ==
    /\ pc = "exit"
    /\ file.exists
    /\ ~WellFormed(file)
    /\ store = [exists |-> TRUE, examples |-> <<>>]
    /\ storeCalls = <<"list_examples">>
    /\ ~aborted
    /\ AllZero(scores)
    /\ exitCode = 1

\* C8: load_dataset_from_jsonl never raises; it returns the records of all
\* non-blank lines, in file order, when the file is there and every such
\* line parses, and the empty list otherwise, never a partial prefix.
C8_LoaderAllOrNothing ==
    pc = "loaded" =>
        /\ raised = "none"
        /\ IF WellFormed(file) THEN loaded = RecordsOf(file.lines)
           ELSE loaded = <<>>

\* C8: a well-formed 3-line file with a blank line in the middle gives its
\* 2 records.
C8_Witness ==
    /\ pc = "loaded"
    /\ Len(file.lines) = 3
    /\ file.lines[2] = <<WS>>
    /\ loaded = <<Example(2), Example(1)>>

\* C9: when the try body of evaluate_prompt completes, at most max_examples
\* examples were run, and they are the first min(max_examples, size)
\* examples of the dataset, each once, in the dataset's order.
C9_RunsLeadingExamples ==
    (pc = "display" /\ ~aborted) =>
        /\ Len(runLog) <= Max(max_examples, 0)
        /\ Len(runLog) = Max(Min(max_examples, Len(examples)), 0)
        /\ \A i \in 1..Len(runLog) : runLog[i].id = examples[i].id

HasRole(m) == "role" \in DOMAIN m /\ m["role"] \in {"system", "human", "ai"}

\* C10: a prompt whose messages have the roles system, human or ai, pushed
\* and then pulled, comes back with as many messages and the same role and
\* content at every position.
C10_RoundTrip ==
    (/\ pc = "pulled" /\ pushed /\ pullOk
     /\ "messages" \in DOMAIN prompt_data
     /\ \A i \in 1..Len(prompt_data["messages"]) :
          /\ HasRole(prompt_data["messages"][i])
          /\ "content" \in DOMAIN prompt_data["messages"][i]) =>
        /\ Len(pulled) = Len(prompt_data["messages"])
        /\ \A i \in 1..Len(pulled) :
             /\ pulled[i]["role"] = prompt_data["messages"][i]["role"]
             /\ pulled[i]["content"] = prompt_data["messages"][i]["content"]

\* C10: a system message and an ai message pushed over an older prompt and
\* pulled back.
C10_Witness ==
    /\ pc = "pulled"
    /\ pushed
    /\ pullOk
    /\ pulled = <<[role |-> "system", content |-> Str("text", 1)],
                  [role |-> "ai", content |-> Str("text {bug_report}", 2)]>>
    /\ prompt_data["messages"] = pulled

\* The value of the first of question, bug_report, pr_title that is a key of
\* inp, "N/A" when none is or inp is not a mapping.
FirstPresent(inp) ==
    IF inp = None THEN NA
    ELSE IF "question" \in DOMAIN inp THEN inp["question"]
    ELSE IF "bug_report" \in DOMAIN inp THEN inp["bug_report"]
    ELSE IF "pr_title" \in DOMAIN inp THEN inp["pr_title"]
    ELSE NA

\* C11: for an example on which the model call succeeds, the question
\* returned by evaluate_prompt_on_example is the value of the first key
\* present among question, bug_report, pr_title, "N/A" when none is; the
\* reference is outputs["reference"], the empty string when outputs is not a
\* mapping or lacks that key.
C11_QuestionAndReference ==
    (runLog # <<>> /\ runLog[1].outcome \in {"content", "empty_content"}) =>
        LET inp == examples[1].inputs
            out == examples[1].outputs
        IN  /\ result.question = FirstPresent(inp)
            /\ result.reference =
                 IF out # None /\ "reference" \in DOMAIN out
                 THEN out["reference"] ELSE EmptyStr

\* C11: the model answered an example whose inputs hold bug_report and
\* pr_title but no question, and whose outputs are not a mapping.
C11_Witness ==
    /\ runLog # <<>>
    /\ runLog[1].outcome = "content"
    /\ examples[1].inputs # None
    /\ DOMAIN examples[1].inputs = {"bug_report", "pr_title"}
    /\ examples[1].outputs = None
    /\ result.question = Str("bug_report", 1)
    /\ result.reference = EmptyStr
    /\ result.answer # EmptyStr

\* The YAML structure has a message, a message of role system, and no
\* message whose content is empty or blank.
IsValidPrompt(d) ==
    /\ Truthy(d)
    /\ "messages" \in DOMAIN d
    /\ d["messages"] # <<>>
    /\ \E i \in 1..Len(d["messages"]) :
         /\ "role" \in DOMAIN d["messages"][i]
         /\ d["messages"][i]["role"] = "system"
    /\ \A i \in 1..Len(d["messages"]) :
         /\ "content" \in DOMAIN d["messages"][i]
         /\ d["messages"][i]["content"] \notin {EmptyStr, Blank}

\* The message templates of the prompt handed to the one call of hub.push.
PushedMessages == pushCalls[1].object.messages

\* C12: hub.push is reached only when the credential check passed, the
\* pytest run passed unless --skip-tests was given, the YAML loaded and
\* validate_prompt reported no error, so that the template handed to it has
\* a message, a system message and no empty or blank content; a run in
\* which one of these steps fails returns 1 and never calls hub.push.
C12_PushOnlyAfterValidation ==
    /\ pushCalls # <<>> =>
         /\ env["LANGSMITH_API_KEY"] # Unset
         /\ skip_tests \/ returncode = 0
         /\ prompt_data["messages"] = prompt_file["messages"]
         /\ IsValidPrompt(prompt_file)
         /\ is_valid /\ errors = <<>>
         /\ pc = "exit"
         /\ Len(pushCalls) = 1
         /\ Len(PushedMessages) = Len(prompt_file["messages"])
         /\ Len(PushedMessages) >= 1
         /\ \E i \in 1..Len(PushedMessages) :
              PushedMessages[i].class = <<"System", "Message", "PromptTemplate">>
         /\ \A i \in 1..Len(PushedMessages) :
              PushedMessages[i].prompt.template \notin {EmptyStr, Blank}
    /\ (/\ pc = "exit"
        /\ \/ env["LANGSMITH_API_KEY"] = Unset
           \/ ~skip_tests /\ returncode # 0
           \/ ~IsValidPrompt(prompt_file)) =>
         /\ exitCode = 1
         /\ pushCalls = <<>>
         /\ hubRepo = NoPrompt

\* C12: the tests ran and passed, a prompt of a system and a human message
\* was validated and pushed, and main returned 0.
C12_Witness ==
    /\ pc = "exit"
    /\ exitCode = 0
    /\ ~skip_tests
    /\ returncode = 0
    /\ Len(pushCalls) = 1
    /\ hubRepo = pushCalls[1].object
    /\ Len(hubRepo.messages) = 2
    /\ hubRepo.messages[1].class = <<"System", "Message", "PromptTemplate">>
    /\ hubRepo.messages[2].class = <<"Human", "Message", "PromptTemplate">>

\* An evaluator raised: evaluate_prompt left through its except branch with
\* an answered example that was never scored.
EvaluatorRaised == aborted /\ Len(AnsweredIds) > Len(evalLog)

\* C13: once an evaluator has raised while scoring an example,
\* evaluate_prompt has returned the four scores 0.0 whatever the earlier
\* examples had scored, the example being scored is the last one run, and
\* nothing of it was appended to the score lists.
C13_EvaluatorFailureGivesZeros ==
    EvaluatorRaised =>
        /\ Returned
        /\ AllZero(scores)
        /\ Len(runLog) = idx + 1
        /\ runLog[Len(runLog)].answered
        /\ Len(evalLog) = Len(AnsweredIds) - 1
        /\ Len(tone_scores) = Len(evalLog)
        /\ Len(completeness_scores) = Len(evalLog)
        /\ pc \in {"return", "exit"} => ~passed
        /\ pc = "exit" => exitCode = 1

\* C13: the first example scored 1.0 on every metric, an evaluator raised
\* on the second, the third was never run, and main returned 1 with the
\* scores 0.0.
C13_Witness ==
    /\ pc = "exit"
    /\ EvaluatorRaised
    /\ Len(Slice(examples, max_examples)) = 3
    /\ Len(runLog) = 2
    /\ Len(evalLog) = 1
    /\ evalLog[1].scores = <<10000, 10000, 10000, 10000>>
    /\ tone_scores = <<10000>>
    /\ AllZero(scores)
    /\ exitCode = 1

\* C14: after a run of create_evaluation_dataset with a non-empty local
\* example list in which every dataset-store call succeeded, the dataset
\* exists and holds every example of the local file exactly once.
C14_DatasetHoldsLocalFile ==
    (pc = "pull" /\ loaded # <<>> /\ storeError = 0) =>
        /\ store.exists
        /\ \A i \in 1..Len(loaded) :
             Cardinality({ j \in 1..Len(store.examples) :
                             store.examples[j] = loaded[i] }) = 1

====
